---- MODULE Spec2Model ----
(***************************************************************************)
(* Model of the shell in src/src/main.rs: the tokenizer (tokenize), the    *)
(* redirection parser (parse_command) and the read loop of main with its   *)
(* output handling.                                                        *)
(*                                                                         *)
(* A string is a sequence of symbols.  A symbol is one character of the    *)
(* input that the code distinguishes (space, quote, backslash, `>`, a      *)
(* digit) or a run of ordinary characters the code never looks inside      *)
(* ("echo", "f", a fixed message text).                                    *)
(***************************************************************************)
EXTENDS Integers, Sequences, FiniteSets, TLC

VARIABLES pc, input, tk, tokens, pr, fs, cwd, out, err, result, readline, spawned, env

vars == <<pc, input, tk, tokens, pr, fs, cwd, out, err, result, readline, spawned, env>>

(***************************************************************************)
(* Bounds                                                                  *)
(***************************************************************************)
MaxLen == 5        \* longest input line of the tokenizer specification
MaxTokens == 5     \* longest token sequence of the parser specification
MaxFileLen == 4    \* longest file content kept by the shell specification
MaxPath == 2       \* most directories in PATH of the builtin specification
MaxArgs == 2       \* most arguments of echo in the builtin specification

(***************************************************************************)
(* Characters                                                              *)
(***************************************************************************)
BACKSLASH == "\\"
SQUOTE == "'"
DQUOTE == "\""
GT == ">"
SPACE == " "
NL == "\n"

\* char::is_ascii_digit, on the digits the model's lines use
is_ascii_digit(c) == c \in {"1", "2"}

\* char::is_whitespace, on the whitespace the model's lines use
is_whitespace(c) == c = SPACE

None == [some |-> FALSE]
Some(v) == [some |-> TRUE, val |-> v]

(***************************************************************************)
(* tokenize                                                                *)
(***************************************************************************)
\* the locals of tokenize before the loop; pos is the position of the
\* character chars.next() returns next
TokInit ==
  [pos |-> 1, tokens |-> <<>>, current |-> <<>>,
   in_single_quote |-> FALSE, in_double_quote |-> FALSE]

Normal_NoDouble(st) == ~st.in_single_quote

\* `!in_single_quote && !in_double_quote`
Normal(st) == ~st.in_single_quote /\ ~st.in_double_quote

\* the branch of the if/else-if chain of the loop body the character c takes
Branch(c, st) ==
  IF c = BACKSLASH /\ ~st.in_single_quote THEN "backslash"
  ELSE IF c = SQUOTE /\ ~st.in_double_quote THEN "single"
  ELSE IF c = DQUOTE /\ ~st.in_single_quote THEN "double"
  ELSE IF c = GT /\ Normal(st) THEN "redirect"
  ELSE IF is_whitespace(c) /\ Normal(st) THEN "whitespace"
  ELSE "char"

\* `!current.is_empty() && current.chars().last().unwrap().is_ascii_digit()`
has_fd(current) == current # <<>> /\ is_ascii_digit(current[Len(current)])

\* chars.peek() after the character at pos has been taken
Peek(st, line) == IF st.pos < Len(line) THEN Some(line[st.pos + 1]) ELSE None

StepBackslash_KeepsTrailing(st, line) ==
  LET next == Peek(st, line) IN
  IF next.some
  THEN [st EXCEPT !.pos = @ + 2, !.current = Append(@, next.val)]
  ELSE [st EXCEPT !.pos = @ + 1, !.current = Append(@, BACKSLASH)]

\* the backslash branch
StepBackslash(st, line) ==
  LET next == Peek(st, line) IN
  IF next.some
  THEN [st EXCEPT !.pos = @ + 2, !.current = Append(@, next.val)]
  ELSE [st EXCEPT !.pos = @ + 1]

\* the `>` branch
StepRedirect(st, line) ==
  LET fd == has_fd(st.current)
      taken == IF fd THEN st.current ELSE <<>>
      current1 == IF fd THEN <<>> ELSE st.current
      next == Peek(st, line)
      second == next.some /\ next.val = GT
      redirect_token == taken \o <<GT>> \o (IF second THEN <<GT>> ELSE <<>>)
      pending == ~fd /\ current1 # <<>>
      tokens1 == IF pending THEN Append(st.tokens, current1) ELSE st.tokens
  IN [st EXCEPT !.pos = @ + (IF second THEN 2 ELSE 1),
                !.tokens = Append(tokens1, redirect_token),
                !.current = <<>>]

\* the whitespace branch
StepWhitespace_PushesEmpty(st) ==
  [st EXCEPT !.pos = @ + 1, !.tokens = Append(@, st.current), !.current = <<>>]

StepWhitespace(st) ==
  IF st.current # <<>>
  THEN [st EXCEPT !.pos = @ + 1, !.tokens = Append(@, st.current), !.current = <<>>]
  ELSE [st EXCEPT !.pos = @ + 1]

TokStep_QuoteFlushes(st, line) ==
  LET c == line[st.pos]
      b == Branch(c, st)
      flushed == [st EXCEPT !.pos = @ + 1, !.tokens = Append(@, st.current), !.current = <<>>]
  IN CASE b = "backslash" -> StepBackslash(st, line)
       [] b = "single" -> IF st.in_single_quote
                          THEN [flushed EXCEPT !.in_single_quote = FALSE]
                          ELSE [st EXCEPT !.pos = @ + 1, !.in_single_quote = TRUE]
       [] b = "double" -> IF st.in_double_quote
                          THEN [flushed EXCEPT !.in_double_quote = FALSE]
                          ELSE [st EXCEPT !.pos = @ + 1, !.in_double_quote = TRUE]
       [] b = "redirect" -> StepRedirect(st, line)
       [] b = "whitespace" -> StepWhitespace(st)
       [] OTHER -> [st EXCEPT !.pos = @ + 1, !.current = Append(@, c)]

\* one iteration of `while let Some(c) = chars.next()`
TokStep(st, line) ==
  LET c == line[st.pos]
      b == Branch(c, st)
  IN CASE b = "backslash" -> StepBackslash(st, line)
       [] b = "single" -> [st EXCEPT !.pos = @ + 1, !.in_single_quote = ~@]
       [] b = "double" -> [st EXCEPT !.pos = @ + 1, !.in_double_quote = ~@]
       [] b = "redirect" -> StepRedirect(st, line)
       [] b = "whitespace" -> StepWhitespace(st)
       [] OTHER -> [st EXCEPT !.pos = @ + 1, !.current = Append(@, c)]

\* after the loop: `if !current.is_empty() { tokens.push(current) }`
TokFlush_DropsOpenQuote(st) ==
  IF st.current # <<>> /\ Normal(st)
  THEN [st EXCEPT !.tokens = Append(@, st.current), !.current = <<>>]
  ELSE st

TokFlush(st) ==
  IF st.current # <<>>
  THEN [st EXCEPT !.tokens = Append(@, st.current), !.current = <<>>]
  ELSE st

RECURSIVE TokRun(_, _)
TokRun(st, line) ==
  IF st.pos > Len(line) THEN TokFlush(st) ELSE TokRun(TokStep(st, line), line)

\* tokenize(input)
tokenize(line) == TokRun(TokInit, line).tokens

(***************************************************************************)
(* The tokenizer specification: one line, one loop iteration per step      *)
(***************************************************************************)
Alphabet == {"a", "1", GT, SPACE, SQUOTE, DQUOTE, BACKSLASH}

Lines == UNION {[1..n -> Alphabet] : n \in 0..MaxLen}

NoFile == [exists |-> FALSE]
File(content) == [exists |-> TRUE, content |-> content]

F == <<"f">>
ROOT == <<"/">>
FsInit == [p \in {F} |-> NoFile]
PrInit == [i |-> 1, args |-> <<>>, redirect_stdout |-> None, redirect_stderr |-> None]
Ok(s) == [ok |-> TRUE, val |-> s]
Err(s) == [ok |-> FALSE, val |-> s]

\* env::var("PATH") split at ':', and the regular executable files
PATH == <<<<"bin">>>>
ExecFiles == {<<"bin", "/", "ls">>}

\* the environment full_path looks at: the PATH variable (None when unset)
\* and what std::fs::metadata says of a path: "exec" is a regular file with
\* an execute bit, "plain" a regular file without, "dir" a directory; a
\* path outside the map does not exist
EnvInit == [path |-> Some(PATH), files |-> [p \in ExecFiles |-> "exec"]]

IdleRest ==
  /\ tokens = <<>> /\ pr = PrInit /\ fs = FsInit /\ cwd = ROOT
  /\ out = <<>> /\ err = <<>> /\ result = Ok(<<>>)
  /\ readline = "none" /\ spawned = 0 /\ env = EnvInit

TokInitState ==
  /\ pc = "tokenize"
  /\ input \in Lines
  /\ tk = TokInit
  /\ IdleRest

\* the loop reads a character that takes branch b
TokReads(b) ==
  /\ pc = "tokenize"
  /\ tk.pos <= Len(input)
  /\ Branch(input[tk.pos], tk) = b

\* the loop body runs on it
TokBody ==
  /\ tk' = TokStep(tk, input)
  /\ UNCHANGED <<pc, input, tokens, pr, fs, cwd, out, err, result, readline, spawned, env>>

TokBackslash == TokReads("backslash") /\ TokBody
TokSingleQuote == TokReads("single") /\ TokBody
TokDoubleQuote == TokReads("double") /\ TokBody
TokRedirect == TokReads("redirect") /\ TokBody
TokWhitespace == TokReads("whitespace") /\ TokBody
TokChar == TokReads("char") /\ TokBody

TokEnd ==
  /\ pc = "tokenize"
  /\ tk.pos > Len(input)
  /\ tk' = TokFlush(tk)
  /\ pc' = "tokenized"
  /\ UNCHANGED <<input, tokens, pr, fs, cwd, out, err, result, readline, spawned, env>>

TokNext ==
  \/ TokBackslash
  \/ TokSingleQuote
  \/ TokDoubleQuote
  \/ TokRedirect
  \/ TokWhitespace
  \/ TokChar
  \/ TokEnd

SpecTok == TokInitState /\ [][TokNext]_vars

(***************************************************************************)
(* Properties of the tokenizer                                             *)
(***************************************************************************)
\* the operator tokens of the redirection surface, with any fd digit
OperatorShapes ==
  {<<GT>>, <<GT, GT>>} \cup
  UNION {{<<d, GT>>, <<d, GT, GT>>} : d \in {"1", "2"}}

Last(s) == s[Len(s)]
Front(s) == SubSeq(s, 1, Len(s) - 1)
Count(s, c) == Cardinality({k \in 1..Len(s) : s[k] = c})
Has(s, c) == \E k \in 1..Len(s) : s[k] = c

\* the loop is about to read a `>` in Normal state
AtRedirect ==
  pc = "tokenize" /\ tk.pos <= Len(input) /\ Branch(input[tk.pos], tk) = "redirect"

\* C6 (as claimed): when `>` is read in Normal state and the pending token
\* ends in a digit, only that digit goes into the operator token: the token
\* emitted is a digit followed by `>` or `>>`, and the pending characters
\* before the digit are emitted as a word token in front of it.
C6_OnlyDigitPeeled ==
  [][(AtRedirect /\ has_fd(tk.current)) =>
       LET op == Last(tk'.tokens)
           rest == Front(tk.current)
       IN /\ op \in OperatorShapes
          /\ op[1] = Last(tk.current)
          /\ rest # <<>> =>
               /\ Len(tk'.tokens) = Len(tk.tokens) + 2
               /\ tk'.tokens[Len(tk.tokens) + 1] = rest]_vars

\* C9 (as claimed): a `>` read in Normal state emits one operator token of
\* its own: it holds the `>`, a directly following `>`, and nothing of the
\* pending word but an fd digit, so it holds at most two `>` characters.
C9_OneOperatorToken ==
  [][AtRedirect =>
       LET op == Last(tk'.tokens)
           second == tk.pos < Len(input) /\ input[tk.pos + 1] = GT
       IN /\ Len(tk'.tokens) \in {Len(tk.tokens) + 1, Len(tk.tokens) + 2}
          /\ tk'.current = <<>>
          /\ tk'.pos = tk.pos + (IF second THEN 2 ELSE 1)
          /\ Count(op, GT) = (IF second THEN 2 ELSE 1)
          /\ \A k \in 1..Len(op) : op[k] = GT \/ is_ascii_digit(op[k])]_vars

\* the loop is about to read a character inside an open quote
AtQuoted ==
  /\ pc = "tokenize" /\ tk.pos <= Len(input)
  /\ (tk.in_single_quote \/ tk.in_double_quote)

\* the line is one quoted string: q, a body without q and without
\* backslash, q
QuotedBody(q) == SubSeq(input, 2, Len(input) - 1)
IsQuotedLine(q) ==
  /\ Len(input) >= 2
  /\ input[1] = q /\ input[Len(input)] = q
  /\ ~Has(QuotedBody(q), q) /\ ~Has(QuotedBody(q), BACKSLASH)

\* C10: inside single or double quotes every character but the closing
\* quote (and, in double quotes, a backslash with the character it escapes)
\* is appended to the pending token and neither splits the token, starts an
\* operator nor changes the quote state; the closing quote only changes the
\* state; a line that is one quoted string gives its body as one token.
C10_QuotedLiteral ==
  [][/\ AtQuoted =>
          LET c == input[tk.pos]
              closing == \/ tk.in_single_quote /\ c = SQUOTE
                         \/ tk.in_double_quote /\ c = DQUOTE
          IN IF closing
             THEN /\ tk'.current = tk.current
                  /\ tk'.tokens = tk.tokens
                  /\ ~tk'.in_single_quote /\ ~tk'.in_double_quote
             ELSE IF tk.in_double_quote /\ c = BACKSLASH
             THEN TRUE
             ELSE /\ tk'.current = Append(tk.current, c)
                  /\ tk'.tokens = tk.tokens
                  /\ tk'.in_single_quote = tk.in_single_quote
                  /\ tk'.in_double_quote = tk.in_double_quote
     /\ pc' = "tokenized" =>
          \A q \in {SQUOTE, DQUOTE} :
            IsQuotedLine(q) =>
              tk'.tokens = IF QuotedBody(q) = <<>> THEN <<>> ELSE <<QuotedBody(q)>>]_vars

\* a double-quoted string with a space, a `>` and a single quote inside has
\* become one token
C10_Witness ==
  /\ pc = "tokenized"
  /\ input = <<DQUOTE, SPACE, GT, SQUOTE, DQUOTE>>
  /\ tk.tokens = <<<<SPACE, GT, SQUOTE>>>>

(***************************************************************************)
(* parse_command                                                           *)
(***************************************************************************)
\* struct Redirection
Redirection(file, append) == [file |-> file, append |-> append]

\* tokens.get(k)
Get(toks, k) == IF k \in 1..Len(toks) THEN Some(toks[k]) ELSE None

Arm_StderrAsStdout(t) ==
  IF t \in {<<GT>>, <<"1", GT>>, <<"2", GT>>} THEN "stdout"
  ELSE IF t \in {<<GT, GT>>, <<"1", GT, GT>>} THEN "stdout_append"
  ELSE IF t = <<"2", GT, GT>> THEN "stderr_append"
  ELSE "arg"

\* the arm of `match tokens[i].as_str()` the token t takes
Arm(t) ==
  IF t \in {<<GT>>, <<"1", GT>>} THEN "stdout"
  ELSE IF t \in {<<GT, GT>>, <<"1", GT, GT>>} THEN "stdout_append"
  ELSE IF t = <<"2", GT>> THEN "stderr"
  ELSE IF t = <<"2", GT, GT>> THEN "stderr_append"
  ELSE "arg"

SetRedirect_FirstWins(old, toks, i, append) ==
  IF old.some THEN old
  ELSE IF Get(toks, i + 1).some
  THEN Some(Redirection(Get(toks, i + 1).val, append))
  ELSE None

\* `tokens.get(i + 1).map(|f| Redirection { file: f.clone(), append })`,
\* assigned over the old descriptor
SetRedirect(old, toks, i, append) ==
  IF Get(toks, i + 1).some
  THEN Some(Redirection(Get(toks, i + 1).val, append))
  ELSE None

\* one iteration of `while i < tokens.len()` (i counts from 1 here)
ParseStep(st, toks) ==
  LET a == Arm(toks[st.i]) IN
  CASE a = "stdout" ->
         [st EXCEPT !.redirect_stdout = SetRedirect(@, toks, st.i, FALSE), !.i = @ + 2]
    [] a = "stdout_append" ->
         [st EXCEPT !.redirect_stdout = SetRedirect(@, toks, st.i, TRUE), !.i = @ + 2]
    [] a = "stderr" ->
         [st EXCEPT !.redirect_stderr = SetRedirect(@, toks, st.i, FALSE), !.i = @ + 2]
    [] a = "stderr_append" ->
         [st EXCEPT !.redirect_stderr = SetRedirect(@, toks, st.i, TRUE), !.i = @ + 2]
    [] OTHER ->
         [st EXCEPT !.args = Append(@, toks[st.i]), !.i = @ + 1]

RECURSIVE ParseRun(_, _)
ParseRun(st, toks) ==
  IF st.i > Len(toks) THEN st ELSE ParseRun(ParseStep(st, toks), toks)

\* struct ParsedCommand
ParsedCommand(st) ==
  [args |-> st.args,
   redirect_stdout |-> st.redirect_stdout,
   redirect_stderr |-> st.redirect_stderr]

\* parse_command(tokens)
parse_command(toks) == ParsedCommand(ParseRun(PrInit, toks))

(***************************************************************************)
(* The parser specification: one token sequence, one loop iteration per    *)
(* step                                                                    *)
(***************************************************************************)
TokenSet ==
  {<<GT>>, <<"1", GT>>, <<GT, GT>>, <<"1", GT, GT>>, <<"2", GT>>, <<"2", GT, GT>>,
   <<"a">>, <<"f">>}

TokenSeqs == UNION {[1..n -> TokenSet] : n \in 0..MaxTokens}

ParseInitState ==
  /\ pc = "parse"
  /\ tokens \in TokenSeqs
  /\ pr = PrInit
  /\ input = <<>> /\ tk = TokInit /\ fs = FsInit /\ cwd = ROOT
  /\ out = <<>> /\ err = <<>> /\ result = Ok(<<>>)
  /\ readline = "none" /\ spawned = 0 /\ env = EnvInit

\* the loop is at a token that takes arm a
ParseReads(a) ==
  /\ pc = "parse"
  /\ pr.i <= Len(tokens)
  /\ Arm(tokens[pr.i]) = a

\* the arm runs
ParseBody ==
  /\ pr' = ParseStep(pr, tokens)
  /\ UNCHANGED <<pc, input, tk, tokens, fs, cwd, out, err, result, readline, spawned, env>>

ParseStdout == ParseReads("stdout") /\ ParseBody
ParseStdoutAppend == ParseReads("stdout_append") /\ ParseBody
ParseStderr == ParseReads("stderr") /\ ParseBody
ParseStderrAppend == ParseReads("stderr_append") /\ ParseBody
ParseArg == ParseReads("arg") /\ ParseBody

ParseEnd ==
  /\ pc = "parse"
  /\ pr.i > Len(tokens)
  /\ pc' = "parsed"
  /\ UNCHANGED <<input, tk, tokens, pr, fs, cwd, out, err, result, readline, spawned, env>>

ParseNext ==
  \/ ParseStdout
  \/ ParseStdoutAppend
  \/ ParseStderr
  \/ ParseStderrAppend
  \/ ParseArg
  \/ ParseEnd

SpecParse == ParseInitState /\ [][ParseNext]_vars

(***************************************************************************)
(* Properties of the parser                                                *)
(***************************************************************************)
StdoutOps == {<<GT>>, <<"1", GT>>, <<GT, GT>>, <<"1", GT, GT>>}
StderrOps == {<<"2", GT>>, <<"2", GT, GT>>}
AppendOps == {<<GT, GT>>, <<"1", GT, GT>>, <<"2", GT, GT>>}
Operators == StdoutOps \cup StderrOps

\* position k holds an operator the cursor stops at: an operator token that
\* is not the target of the operator before it
RECURSIVE IsOpPos(_, _)
IsOpPos(toks, k) ==
  /\ toks[k] \in Operators
  /\ (k = 1 \/ ~IsOpPos(toks, k - 1))

OpPositions(toks, ops) == {k \in 1..Len(toks) : IsOpPos(toks, k) /\ toks[k] \in ops}

SetMax(S) == CHOOSE m \in S : \A k \in S : k <= m

\* the tokens that are neither an operator nor the target of one, in order
RECURSIVE WordsFrom(_, _)
WordsFrom(toks, k) ==
  IF k > Len(toks) THEN <<>>
  ELSE IF IsOpPos(toks, k) \/ (k > 1 /\ IsOpPos(toks, k - 1)) THEN WordsFrom(toks, k + 1)
  ELSE <<toks[k]>> \o WordsFrom(toks, k + 1)

\* C5 (as claimed): an operator that is the last token, with no target
\* after it, is dropped: the parse equals the parse of the tokens without it.
C5_TrailingOperatorDropped ==
  (pc = "parsed" /\ tokens # <<>> /\ IsOpPos(tokens, Len(tokens))) =>
    ParsedCommand(pr) = parse_command(Front(tokens))

Descriptor(st, ops) == IF ops = StdoutOps THEN st.redirect_stdout ELSE st.redirect_stderr

\* C7: when a stream has several operators, each with a target, its
\* descriptor after parse_command is the target and the mode of the last.
C7_LastRedirectWins ==
  pc = "parsed" =>
    \A ops \in {StdoutOps, StderrOps} :
      LET P == OpPositions(tokens, ops) IN
      (Cardinality(P) >= 2 /\ \A k \in P : k < Len(tokens)) =>
        Descriptor(pr, ops) =
          Some(Redirection(tokens[SetMax(P) + 1], tokens[SetMax(P)] \in AppendOps))

\* a truncating and an appending stdout operator: the appending, last one won
C7_Witness ==
  /\ pc = "parsed"
  /\ tokens = <<<<"a">>, <<GT>>, <<"f">>, <<"1", GT, GT>>, <<"a">>>>
  /\ pr.redirect_stdout = Some(Redirection(<<"a">>, TRUE))

\* C8: an operator with a following token sets the descriptor of its stream
\* to that token with the operator's mode and leaves the other stream and
\* the arguments alone; any other token is appended to the arguments; at
\* the end the arguments are the tokens that are neither operator nor
\* target, in order, and a stream without operator has no descriptor.
C8_OperatorMapping ==
  [][/\ (pc = "parse" /\ pr.i <= Len(tokens)) =>
          LET t == tokens[pr.i] IN
          /\ (t \in Operators /\ pr.i < Len(tokens)) =>
               LET d == Some(Redirection(tokens[pr.i + 1], t \in AppendOps)) IN
               /\ pr'.args = pr.args
               /\ pr'.i = pr.i + 2
               /\ t \in StdoutOps =>
                    pr'.redirect_stdout = d /\ pr'.redirect_stderr = pr.redirect_stderr
               /\ t \in StderrOps =>
                    pr'.redirect_stderr = d /\ pr'.redirect_stdout = pr.redirect_stdout
          /\ t \notin Operators =>
               /\ pr'.args = Append(pr.args, t)
               /\ pr'.redirect_stdout = pr.redirect_stdout
               /\ pr'.redirect_stderr = pr.redirect_stderr
     /\ pc' = "parsed" =>
          /\ pr'.args = WordsFrom(tokens, 1)
          /\ \A ops \in {StdoutOps, StderrOps} :
               OpPositions(tokens, ops) = {} => Descriptor(pr', ops) = None]_vars

\* the tokens of `a 2> f`, parsed
C8_Witness ==
  /\ pc = "parsed"
  /\ tokens = <<<<"a">>, <<"2", GT>>, <<"f">>>>
  /\ pr.args = <<<<"a">>>>
  /\ pr.redirect_stderr = Some(Redirection(<<"f">>, FALSE))
  /\ pr.redirect_stdout = None

(***************************************************************************)
(* The file system, the environment and the builtins                       *)
(***************************************************************************)
\* a path can be opened for writing when its directory exists: the paths of
\* the file system map.  Every other path fails to open.
Openable(fsys, file) == file \in DOMAIN fsys

Content(fsys, file) == IF fsys[file].exists THEN fsys[file].content ELSE <<>>

write_to_file_NoAppend(fsys, file, content, append) ==
  IF ~Openable(fsys, file) THEN [fs |-> fsys, ok |-> FALSE]
  ELSE [fs |-> [fsys EXCEPT ![file] = File(content)], ok |-> TRUE]

\* the closure write_to_file of main
write_to_file(fsys, file, content, append) ==
  IF ~Openable(fsys, file) THEN [fs |-> fsys, ok |-> FALSE]
  ELSE IF append
  THEN [fs |-> [fsys EXCEPT ![file] = File(Content(fsys, file) \o content)], ok |-> TRUE]
  ELSE [fs |-> [fsys EXCEPT ![file] = File(content)], ok |-> TRUE]

\* the closure create_file of main
create_file(fsys, file, append) ==
  IF ~Openable(fsys, file) THEN [fs |-> fsys, ok |-> FALSE]
  ELSE IF append
  THEN [fs |-> [fsys EXCEPT ![file] = File(Content(fsys, file))], ok |-> TRUE]
  ELSE [fs |-> [fsys EXCEPT ![file] = File(<<>>)], ok |-> TRUE]

\* the text of the std::io::Error of a failed open
IOERR == "No such file or directory (os error 2)"

\* the directories env::set_current_dir accepts
Dirs == {ROOT, <<"dir">>}

\* env::var("HOME")
HOME == Some(<<"dir">>)


\* the builtins vector of main
builtins == {<<"echo">>, <<"exit">>, <<"type">>, <<"pwd">>, <<"cd">>}

full_path_in_AnyFile(e, command) ==
  IF ~e.path.some THEN None
  ELSE LET dirs == e.path.val
           hits == {k \in 1..Len(dirs) : dirs[k] \o <<"/">> \o command \in DOMAIN e.files}
       IN IF hits = {} THEN None
          ELSE Some(dirs[CHOOSE k \in hits : \A j \in hits : k <= j] \o <<"/">> \o command)

\* full_path(command) in the environment e: `find_map` over the entries of
\* PATH, keeping `m.is_file() && m.permissions().mode() & 0o111 != 0`
full_path_in(e, command) ==
  IF ~e.path.some THEN None
  ELSE LET dirs == e.path.val
           full(k) == dirs[k] \o <<"/">> \o command
           hits == {k \in 1..Len(dirs) :
                      full(k) \in DOMAIN e.files /\ e.files[full(k)] = "exec"}
       IN IF hits = {} THEN None
          ELSE Some(full(CHOOSE k \in hits : \A j \in hits : k <= j))

\* full_path(command) in the environment of the shell specification
full_path(command) == full_path_in(EnvInit, command)

\* command[from..].join(" ")
RECURSIVE Join(_, _)
Join(words, from) ==
  IF from > Len(words) THEN <<>>
  ELSE IF from = Len(words) THEN words[from]
  ELSE words[from] \o <<SPACE>> \o Join(words, from + 1)

\* the target directory of the "cd" arm
CdTarget(command) ==
  IF Len(command) < 2 THEN HOME
  ELSE LET arg == command[2] IN
       IF arg = <<"~">> THEN HOME
       ELSE IF Len(arg) >= 2 /\ arg[1] = "~" /\ arg[2] = "/"
       THEN IF HOME.some
            THEN Some(HOME.val \o <<"/">> \o SubSeq(arg, 3, Len(arg)))
            ELSE None
       ELSE Some(arg)

\* the branch the "type" arm takes in the environment e
TypeBranch(e, command) ==
  IF Len(command) < 2 THEN "missing"
  ELSE IF command[2] \in builtins THEN "builtin"
  ELSE IF full_path_in(e, command[2]).some THEN "found"
  ELSE "notfound"

\* the "type" arm in the environment e
TypeArm(e, command) ==
  IF Len(command) < 2 THEN Ok(<<"type: missing argument", NL>>)
  ELSE IF command[2] \in builtins
  THEN Ok(command[2] \o <<" is a shell builtin", NL>>)
  ELSE LET path == full_path_in(e, command[2]) IN
       IF path.some
       THEN Ok(command[2] \o <<" is ">> \o path.val \o <<NL>>)
       ELSE Ok(command[2] \o <<": not found", NL>>)

EchoArm_NoNewline(command) == Ok(Join(command, 2))

\* the "echo" arm: `Ok(command[1..].join(" ") + "\n")`
EchoArm(command) == Ok(Join(command, 2) \o <<NL>>)

\* the arms "pwd", "cd", "type" and "echo" of `match command[0].as_str()`:
\* the result and the current directory afterwards
Builtin(command, dir) ==
  LET name == command[1] IN
  CASE name = <<"pwd">> -> [result |-> Ok(dir \o <<NL>>), cwd |-> dir]
    [] name = <<"cd">> ->
         LET target == CdTarget(command) IN
         IF ~target.some THEN [result |-> Err(<<"cd: HOME not set">>), cwd |-> dir]
         ELSE IF target.val \notin Dirs
         THEN [result |-> Err(<<"cd: ">> \o target.val \o <<": No such file or directory">>),
               cwd |-> dir]
         ELSE [result |-> Ok(<<>>), cwd |-> target.val]
    [] name = <<"type">> -> [result |-> TypeArm(EnvInit, command), cwd |-> dir]
    [] OTHER -> [result |-> EchoArm(command), cwd |-> dir]

\* the names the match of main handles itself
IsBuiltinName(name) == name \in {<<"exit">>, <<"pwd">>, <<"cd">>, <<"type">>, <<"echo">>}

\* `!matches!(command[0].as_str(), "echo" | "pwd" | "cd" | "type" | "exit")`
is_external(command) ==
  command[1] \notin {<<"echo">>, <<"pwd">>, <<"cd">>, <<"type">>, <<"exit">>}

(***************************************************************************)
(* The `_` arm: an external command.  child is what the program writes.    *)
(***************************************************************************)
\* "Set up stderr redirection if specified": the file is opened (created,
\* truncated unless appending) before the spawn
OpenStderr(fsys, parsed) ==
  IF parsed.redirect_stderr.some
  THEN create_file(fsys, parsed.redirect_stderr.val.file, parsed.redirect_stderr.val.append)
  ELSE [fs |-> fsys, ok |-> FALSE]

\* Command::output(): spawn, wait, capture what is not attached to a file
External(command, parsed, fsys, child) ==
  LET opened == OpenStderr(fsys, parsed)
      file == parsed.redirect_stderr.val.file
  IN IF ~full_path(command[1]).some
     THEN [result |-> Err(command[1] \o <<": command not found">>),
           fs |-> opened.fs, err |-> <<>>]
     ELSE [result |-> Ok(child.stdout),
           fs |-> IF opened.ok
                  THEN [opened.fs EXCEPT ![file] = File(Content(opened.fs, file) \o child.stderr)]
                  ELSE opened.fs,
           err |-> IF child.stderr # <<>> /\ ~parsed.redirect_stderr.some
                   THEN child.stderr ELSE <<>>]

(***************************************************************************)
(* Output handling of main                                                 *)
(***************************************************************************)
HandleStdout_SkipsEmpty(fsys, parsed, res) ==
  IF parsed.redirect_stdout.some
  THEN LET r == parsed.redirect_stdout.val
           output == IF res.ok THEN res.val ELSE <<>>
       IN IF output # <<>>
          THEN LET w == write_to_file(fsys, r.file, output, r.append) IN
               [fs |-> w.fs, out |-> <<>>,
                err |-> IF w.ok THEN <<>> ELSE r.file \o <<": ", IOERR, NL>>]
          ELSE [fs |-> fsys, out |-> <<>>, err |-> <<>>]
  ELSE [fs |-> fsys, out |-> IF res.ok THEN res.val ELSE <<>>, err |-> <<>>]

\* "Handle stdout redirection"
HandleStdout(fsys, parsed, res) ==
  IF parsed.redirect_stdout.some
  THEN LET r == parsed.redirect_stdout.val
           output == IF res.ok THEN res.val ELSE <<>>
       IN IF output # <<>>
          THEN LET w == write_to_file(fsys, r.file, output, r.append) IN
               [fs |-> w.fs, out |-> <<>>,
                err |-> IF w.ok THEN <<>> ELSE r.file \o <<": ", IOERR, NL>>]
          ELSE [fs |-> create_file(fsys, r.file, r.append).fs, out |-> <<>>, err |-> <<>>]
  ELSE [fs |-> fsys, out |-> IF res.ok THEN res.val ELSE <<>>, err |-> <<>>]

HandleStderr_NoCreate(fsys, parsed, command, res) ==
  IF parsed.redirect_stderr.some
  THEN LET r == parsed.redirect_stderr.val IN
       IF is_external(command) THEN [fs |-> fsys, err |-> <<>>]
       ELSE IF ~res.ok
       THEN LET w == write_to_file(fsys, r.file, res.val, r.append) IN
            [fs |-> w.fs, err |-> IF w.ok THEN <<>> ELSE r.file \o <<": ", IOERR, NL>>]
       ELSE [fs |-> fsys, err |-> <<>>]
  ELSE [fs |-> fsys, err |-> IF res.ok THEN <<>> ELSE res.val \o <<NL>>]

\* "Handle stderr redirection (only for builtins; external commands handle
\* it themselves)"
HandleStderr(fsys, parsed, command, res) ==
  IF parsed.redirect_stderr.some
  THEN LET r == parsed.redirect_stderr.val IN
       IF is_external(command) THEN [fs |-> fsys, err |-> <<>>]
       ELSE IF ~res.ok
       THEN LET w == write_to_file(fsys, r.file, res.val, r.append) IN
            [fs |-> w.fs, err |-> IF w.ok THEN <<>> ELSE r.file \o <<": ", IOERR, NL>>]
       ELSE [fs |-> create_file(fsys, r.file, r.append).fs, err |-> <<>>]
  ELSE [fs |-> fsys, err |-> IF res.ok THEN <<>> ELSE res.val \o <<NL>>]

\* which way the loop body goes for a parsed line: the two `continue`s,
\* the "exit" arm, a builtin arm or the `_` arm
Kind(parsed) ==
  IF parsed.args = <<>> THEN "skip"
  ELSE IF parsed.args[1] = <<"exit">> THEN "exit"
  ELSE IF IsBuiltinName(parsed.args[1]) THEN "builtin"
  ELSE "external"

Execute_RedirectsWithoutCommand(parsed, fsys, dir, child) ==
  LET command == parsed.args
      idle == [fs |-> fsys, cwd |-> dir, out |-> <<>>, err |-> <<>>, result |-> Ok(<<>>)]
  IN IF Kind(parsed) = "skip"
     THEN [idle EXCEPT !.fs = HandleStdout(fsys, parsed, Ok(<<>>)).fs]
     ELSE IF Kind(parsed) = "exit" THEN idle
     ELSE LET isb == Kind(parsed) = "builtin"
              b == Builtin(command, dir)
              x == External(command, parsed, fsys, child)
              res == IF isb THEN b.result ELSE x.result
              so == HandleStdout(IF isb THEN fsys ELSE x.fs, parsed, res)
              se == HandleStderr(so.fs, parsed, command, res)
          IN [fs |-> se.fs,
              cwd |-> IF isb THEN b.cwd ELSE dir,
              out |-> so.out,
              err |-> (IF isb THEN <<>> ELSE x.err) \o so.err \o se.err,
              result |-> res]

\* the body of `Ok(input) => { ... }` after tokenize and parse_command
Execute(parsed, fsys, dir, child) ==
  LET command == parsed.args
      idle == [fs |-> fsys, cwd |-> dir, out |-> <<>>, err |-> <<>>, result |-> Ok(<<>>)]
  IN IF Kind(parsed) \in {"skip", "exit"} THEN idle
     ELSE LET isb == Kind(parsed) = "builtin"
              b == Builtin(command, dir)
              x == External(command, parsed, fsys, child)
              res == IF isb THEN b.result ELSE x.result
              so == HandleStdout(IF isb THEN fsys ELSE x.fs, parsed, res)
              se == HandleStderr(so.fs, parsed, command, res)
          IN [fs |-> se.fs,
              cwd |-> IF isb THEN b.cwd ELSE dir,
              out |-> so.out,
              err |-> (IF isb THEN <<>> ELSE x.err) \o so.err \o se.err,
              result |-> res]

(***************************************************************************)
(* The copies in the module files: tokenize of tokenize.rs and             *)
(* parse_command of redirection.rs, which the unit tests call. Each is     *)
(* written as its loop over what is left of the input.                     *)
(***************************************************************************)
TokenizeRsRedirect_SingleOnly(rest, toks, current) ==
  LET fd == current # <<>> /\ is_ascii_digit(current[Len(current)])
      redirect_token == (IF fd THEN current ELSE <<>>) \o <<GT>>
      pushed == IF ~fd /\ current # <<>> THEN Append(toks, current) ELSE toks
  IN [rest |-> rest, tokens |-> Append(pushed, redirect_token)]

\* tokenize.rs, the `>` branch: rest is what follows the `>`
TokenizeRsRedirect(rest, toks, current) ==
  LET fd == current # <<>> /\ is_ascii_digit(current[Len(current)])
      second == rest # <<>> /\ Head(rest) = GT
      redirect_token ==
        (IF fd THEN current ELSE <<>>) \o <<GT>> \o (IF second THEN <<GT>> ELSE <<>>)
      pushed == IF ~fd /\ current # <<>> THEN Append(toks, current) ELSE toks
  IN [rest |-> IF second THEN Tail(rest) ELSE rest,
      tokens |-> Append(pushed, redirect_token)]

\* tokenize.rs, `while let Some(c) = chars.next()` and the final flush
RECURSIVE TokenizeRsLoop(_, _, _, _, _)
TokenizeRsLoop(chars, toks, current, in_single_quote, in_double_quote) ==
  IF chars = <<>>
  THEN IF current # <<>> THEN Append(toks, current) ELSE toks
  ELSE LET c == Head(chars)
           rest == Tail(chars)
       IN IF c = BACKSLASH /\ ~in_single_quote
          THEN IF rest # <<>>
               THEN TokenizeRsLoop(Tail(rest), toks, Append(current, Head(rest)),
                                   in_single_quote, in_double_quote)
               ELSE TokenizeRsLoop(rest, toks, current, in_single_quote, in_double_quote)
          ELSE IF c = SQUOTE /\ ~in_double_quote
          THEN TokenizeRsLoop(rest, toks, current, ~in_single_quote, in_double_quote)
          ELSE IF c = DQUOTE /\ ~in_single_quote
          THEN TokenizeRsLoop(rest, toks, current, in_single_quote, ~in_double_quote)
          ELSE IF c = GT /\ ~in_single_quote /\ ~in_double_quote
          THEN LET r == TokenizeRsRedirect(rest, toks, current)
               IN TokenizeRsLoop(r.rest, r.tokens, <<>>, in_single_quote, in_double_quote)
          ELSE IF is_whitespace(c) /\ ~in_single_quote /\ ~in_double_quote
          THEN IF current # <<>>
               THEN TokenizeRsLoop(rest, Append(toks, current), <<>>,
                                   in_single_quote, in_double_quote)
               ELSE TokenizeRsLoop(rest, toks, current, in_single_quote, in_double_quote)
          ELSE TokenizeRsLoop(rest, toks, Append(current, c),
                              in_single_quote, in_double_quote)

\* tokenize of tokenize.rs
tokenize_rs(line) == TokenizeRsLoop(line, <<>>, <<>>, FALSE, FALSE)

\* redirection.rs, `while i < tokens.len()`, i counting from 0 as there
RECURSIVE ParseCommandRsLoop(_, _, _, _, _)
ParseCommandRsLoop(toks, i, args, redirect_stdout, redirect_stderr) ==
  IF ~(i < Len(toks))
  THEN [args |-> args, redirect_stdout |-> redirect_stdout,
        redirect_stderr |-> redirect_stderr]
  ELSE LET t == toks[i + 1]
           target(append) ==
             IF i + 1 < Len(toks)
             THEN Some([file |-> toks[i + 2], append |-> append])
             ELSE None
       IN IF t = <<GT>> \/ t = <<"1", GT>>
          THEN ParseCommandRsLoop(toks, i + 2, args, target(FALSE), redirect_stderr)
          ELSE IF t = <<GT, GT>> \/ t = <<"1", GT, GT>>
          THEN ParseCommandRsLoop(toks, i + 2, args, target(TRUE), redirect_stderr)
          ELSE IF t = <<"2", GT>>
          THEN ParseCommandRsLoop(toks, i + 2, args, redirect_stdout, target(FALSE))
          ELSE IF t = <<"2", GT, GT>>
          THEN ParseCommandRsLoop(toks, i + 2, args, redirect_stdout, target(TRUE))
          ELSE ParseCommandRsLoop(toks, i + 1, Append(args, t),
                                  redirect_stdout, redirect_stderr)

\* parse_command of redirection.rs
parse_command_rs(toks) == ParseCommandRsLoop(toks, 0, <<>>, None, None)

(***************************************************************************)
(* A line on its way to the command: `tokenize(&input)` followed by        *)
(* `parse_command(tokens)`, as the read loop calls them                    *)
(***************************************************************************)
\* the lines read: every line of the tokenizer specification, and every
\* token sequence of the parser specification typed with one blank between
\* its tokens
ReadLines == Lines \cup {Join(toks, 1) : toks \in TokenSeqs}

ReadInitState ==
  /\ pc = "read"
  /\ input \in ReadLines
  /\ tk = TokInit
  /\ IdleRest

\* `let tokens = tokenize(&input);`
ReadTokenize ==
  /\ pc = "read"
  /\ tokens' = tokenize(input)
  /\ pc' = IF tokenize(input) = <<>> THEN "skipped" ELSE "tokens"
  /\ UNCHANGED <<input, tk, pr, fs, cwd, out, err, result, readline, spawned, env>>

\* `let parsed = parse_command(tokens);`
ReadParse ==
  /\ pc = "tokens"
  /\ \E p \in {parse_command(tokens)} :
       pr' = [i |-> Len(tokens) + 1, args |-> p.args,
              redirect_stdout |-> p.redirect_stdout,
              redirect_stderr |-> p.redirect_stderr]
  /\ pc' = "parsed"
  /\ UNCHANGED <<input, tk, tokens, fs, cwd, out, err, result, readline, spawned, env>>

ReadNext == ReadTokenize \/ ReadParse

SpecRead == ReadInitState /\ [][ReadNext]_vars

(***************************************************************************)
(* The builtins "type" and "echo" on their own: the command and the        *)
(* environment are drawn from bounded sets, one action per branch          *)
(***************************************************************************)
\* values of PATH: unset, or up to MaxPath directories separated by ':'
PathDirs == {<<"bin">>, <<"usr">>}
Paths == {None} \cup {Some(p) : p \in UNION {[1..n -> PathDirs] : n \in 1..MaxPath}}

\* what std::fs::metadata finds at a path: nothing (not in the domain), a
\* regular file with an execute bit, a regular file without one, a directory
FileKinds == {"exec", "plain", "dir"}
CandidateFiles == {<<"bin", "/", "ls">>, <<"usr", "/", "ls">>, <<"bin", "/", "echo">>}
Envs ==
  {[path |-> p, files |-> f] :
     p \in Paths, f \in UNION {[S -> FileKinds] : S \in SUBSET CandidateFiles}}

TypeNames == {<<"ls">>, <<"echo">>, <<"cd">>, <<"nosuch">>}
TypeCommands == {<< <<"type">> >>} \cup {<< <<"type">>, n >> : n \in TypeNames}
EchoWords == {<<"a">>, <<"1">>}
EchoCommands ==
  {<< <<"echo">> >> \o a : a \in UNION {[1..n -> EchoWords] : n \in 0..MaxArgs}}

BuiltinInit ==
  /\ pc = "builtin"
  /\ pr \in {[PrInit EXCEPT !.args = c] : c \in TypeCommands \cup EchoCommands}
  /\ env \in Envs
  /\ input = <<>> /\ tk = TokInit /\ tokens = <<>> /\ fs = FsInit /\ cwd = ROOT
  /\ out = <<>> /\ err = <<>> /\ result = Ok(<<>>)
  /\ readline = "none" /\ spawned = 0

\* the match is at the "type" arm, which takes branch b
TypeReads(b) ==
  /\ pc = "builtin"
  /\ pr.args[1] = <<"type">>
  /\ TypeBranch(env, pr.args) = b

TypeBody ==
  /\ result' = TypeArm(env, pr.args)
  /\ pc' = "done"
  /\ UNCHANGED <<input, tk, tokens, pr, fs, cwd, out, err, readline, spawned, env>>

TypeMissing == TypeReads("missing") /\ TypeBody
TypeBuiltin == TypeReads("builtin") /\ TypeBody
TypeFound == TypeReads("found") /\ TypeBody
TypeNotFound == TypeReads("notfound") /\ TypeBody

EchoRuns ==
  /\ pc = "builtin"
  /\ pr.args[1] = <<"echo">>
  /\ result' = EchoArm(pr.args)
  /\ pc' = "done"
  /\ UNCHANGED <<input, tk, tokens, pr, fs, cwd, out, err, readline, spawned, env>>

BuiltinNext ==
  \/ TypeMissing
  \/ TypeBuiltin
  \/ TypeFound
  \/ TypeNotFound
  \/ EchoRuns

SpecBuiltin == BuiltinInit /\ [][BuiltinNext]_vars

(***************************************************************************)
(* The shell specification: the read loop of main, one line per step       *)
(***************************************************************************)
NOPATH == <<"nodir/x">>    \* a file in a directory that does not exist

Cmds ==
  {<<>>, <<"exit">>, <<"echo", SPACE, "a">>, <<"cd", SPACE, "nodir">>, <<"cd", SPACE, "dir">>,
   <<"nosuch">>, <<"ls">>}
RedirOut == {None} \cup {Some([op |-> o, file |-> f]) : o \in StdoutOps, f \in {F, NOPATH}}
RedirErr == {None} \cup {Some([op |-> o, file |-> f]) : o \in StderrOps, f \in {F, NOPATH}}
\* the line `echo hi | tr a-z A-Z`
PipeCmd ==
  <<"echo", SPACE, "hi", SPACE, "|", SPACE, "tr", SPACE, "a-z", SPACE, "A-Z">>
Templates ==
  [cmd : Cmds, ro : RedirOut, re : RedirErr] \cup {[cmd |-> PipeCmd, ro |-> None, re |-> None]}

RedirText(r) == IF r.some THEN <<SPACE>> \o r.val.op \o <<SPACE>> \o r.val.file ELSE <<>>
MkLine(t) == t.cmd \o RedirText(t.ro) \o RedirText(t.re)

ShellLines == {MkLine(t) : t \in Templates}

\* what an external program may write
ChildOutputs == [stdout : {<<"x", NL>>}, stderr : {<<>>, <<"e", NL>>}]
NoChild == [stdout |-> <<>>, stderr |-> <<>>]

Init ==
  /\ pc = "prompt"
  /\ input = <<>>
  /\ tk = TokInit /\ tokens = <<>> /\ pr = PrInit
  /\ fs = FsInit
  /\ cwd = ROOT
  /\ out = <<>> /\ err = <<>> /\ result = Ok(<<>>)
  /\ readline = "none" /\ spawned = 0 /\ env = EnvInit

\* `tokenize(&input)` and `parse_command(tokens)` of every line the shell
\* may read
ParsedLines == [line \in ShellLines |-> parse_command(tokenize(line))]

SkipLines == {line \in ShellLines : Kind(ParsedLines[line]) = "skip"}
ExitLines == {line \in ShellLines : Kind(ParsedLines[line]) = "exit"}
BuiltinLines == {line \in ShellLines : Kind(ParsedLines[line]) = "builtin"}
ExternalLines == {line \in ShellLines : Kind(ParsedLines[line]) = "external"}

Fits(fsys) == \A p \in DOMAIN fsys : Len(Content(fsys, p)) <= MaxFileLen

\* the loop body for the line read, for a line that spawns nothing
Line(line, child) ==
  /\ pc = "prompt"
  /\ \E r \in {Execute(ParsedLines[line], fs, cwd, child)} :
       /\ Fits(r.fs)
       /\ input' = line
       /\ fs' = r.fs
       /\ cwd' = r.cwd
       /\ out' = r.out
       /\ err' = r.err
       /\ result' = r.result
  /\ readline' = "Ok"
  /\ UNCHANGED <<tk, tokens, pr, spawned, env>>

\* `if tokens.is_empty() { continue; }`, `if command.is_empty() { continue; }`
LineSkipped == \E line \in SkipLines : Line(line, NoChild) /\ pc' = "prompt"

\* "exit" => break
LineExit == \E line \in ExitLines : Line(line, NoChild) /\ pc' = "exited"

LineBuiltin_ErrorBreaks ==
  \E line \in BuiltinLines :
    Line(line, NoChild) /\ pc' = (IF result'.ok THEN "prompt" ELSE "exited")

\* the arms "pwd", "cd", "type", "echo", then the output handling
LineBuiltin == \E line \in BuiltinLines : Line(line, NoChild) /\ pc' = "prompt"

\* Command::output() cannot start the program named by the line
SpawnFails(line) == ~full_path(ParsedLines[line].args[1]).some

\* the `_` arm when the spawn fails (`Err(_) => Err(.. command not found)`),
\* then the output handling
LineNotFound ==
  \E line \in ExternalLines :
    SpawnFails(line) /\ Line(line, NoChild) /\ pc' = "prompt"

\* the `_` arm up to the spawn inside Command::output(): the stderr file is
\* opened, the child process starts and the shell blocks in output()
LineSpawn ==
  /\ pc = "prompt"
  /\ \E line \in ExternalLines :
       /\ ~SpawnFails(line)
       /\ \A child \in ChildOutputs : Fits(Execute(ParsedLines[line], fs, cwd, child).fs)
       /\ input' = line
       /\ fs' = OpenStderr(fs, ParsedLines[line]).fs
  /\ readline' = "Ok"
  /\ out' = <<>> /\ err' = <<>>
  /\ spawned' = spawned + 1
  /\ pc' = "waiting"
  /\ UNCHANGED <<tk, tokens, pr, cwd, result, env>>

\* what Command::output() and the output handling do once the child has
\* written `child` and exited.  Execute opens the stderr file again, which
\* changes nothing in the state the spawn left.
ChildDone(child) ==
  \E r \in {Execute(ParsedLines[input], fs, cwd, child)} :
    /\ fs' = r.fs
    /\ cwd' = r.cwd
    /\ out' = r.out
    /\ err' = r.err
    /\ result' = r.result

WaitChild_NoReap ==
  /\ pc = "waiting"
  /\ \E child \in ChildOutputs : ChildDone(child)
  /\ pc' = "prompt"
  /\ UNCHANGED <<input, tk, tokens, pr, readline, spawned, env>>

\* Command::output() returns: the child was waited on, its output was
\* collected; then the output handling
WaitChild ==
  /\ pc = "waiting"
  /\ \E child \in ChildOutputs : ChildDone(child)
  /\ spawned' = spawned - 1
  /\ pc' = "prompt"
  /\ UNCHANGED <<input, tk, tokens, pr, readline, env>>

\* Err(ReadlineError::Interrupted | ReadlineError::Eof) => break
ReadEof ==
  /\ pc = "prompt"
  /\ readline' \in {"Eof", "Interrupted"}
  /\ pc' = "exited"
  /\ UNCHANGED <<input, tk, tokens, pr, fs, cwd, out, err, result, spawned, env>>

\* Err(err) => { eprintln!("Error: {:?}", err); break; }
ReadError ==
  /\ pc = "prompt"
  /\ readline' = "Error"
  /\ err' = <<"Error: ", "Io", NL>>
  /\ out' = <<>>
  /\ pc' = "exited"
  /\ UNCHANGED <<input, tk, tokens, pr, fs, cwd, result, spawned, env>>

Next ==
  \/ LineSkipped
  \/ LineExit
  \/ LineBuiltin
  \/ LineNotFound
  \/ LineSpawn
  \/ WaitChild
  \/ ReadEof
  \/ ReadError

Spec == Init /\ [][Next]_vars

(***************************************************************************)
(* Properties of the shell                                                 *)
(***************************************************************************)
\* the command and the redirections the line was written with
TemplateOf == [line \in ShellLines |-> CHOOSE t \in Templates : MkLine(t) = line]

NameOf(t) == t.cmd[1]
RunsBuiltin(t) == t.cmd # <<>> /\ NameOf(t) \in {"echo", "cd"}
RunsExternal(t) == t.cmd # <<>> /\ NameOf(t) \in {"nosuch", "ls"}

\* the success string of a result, empty for an error
SuccessString(res) == IF res.ok THEN res.val ELSE <<>>
\* the error string of a result, empty for a success
ErrorString(res) == IF res.ok THEN <<>> ELSE res.val

IsSuffix(suffix, s) ==
  Len(suffix) <= Len(s) /\ SubSeq(s, Len(s) - Len(suffix) + 1, Len(s)) = suffix
Contains(s, part) ==
  \E k \in 0..(Len(s) - Len(part)) : SubSeq(s, k + 1, k + Len(part)) = part

\* C1: a builtin run with a stdout redirect to a file that can be opened,
\* and no stderr redirect to the same file, leaves in the file exactly its
\* output when the operator truncates (`>`, `1>`) and the previous content
\* followed by its output when the operator appends (`>>`, `1>>`); so run
\* twice, the file holds the second output, or the first then the second.
C1_TruncateOrAppend ==
  [][pc' = "prompt" =>
       LET t == TemplateOf[input'] IN
       (/\ RunsBuiltin(t)
        /\ t.ro.some
        /\ Openable(fs, t.ro.val.file)
        /\ ~(t.re.some /\ t.re.val.file = t.ro.val.file)) =>
         fs'[t.ro.val.file] =
           File(IF t.ro.val.op \in AppendOps
                THEN Content(fs, t.ro.val.file) \o SuccessString(result')
                ELSE SuccessString(result'))]_vars

\* `echo a >> f` has run twice
C1_Witness ==
  /\ pc = "prompt"
  /\ input = <<"echo", SPACE, "a", SPACE, GT, GT, SPACE, "f">>
  /\ fs[F] = File(<<"a", NL, "a", NL>>)
  /\ out = <<>>

\* C2 (as claimed): an external command that fails to spawn is reported as
\* `<name>: command not found` on the shell's standard error, whatever
\* redirections the line carries.
C2_NotFoundOnStderr ==
  LET t == TemplateOf[input] IN
  (pc = "prompt" /\ RunsExternal(t) /\ ~result.ok) =>
    Contains(err, <<NameOf(t), ": command not found", NL>>)

\* C3 (as claimed): when the target of a builtin's redirection cannot be
\* opened, the shell prints no message about the file and the stream goes
\* where it goes without the redirection: the success string to standard
\* output, the error string to standard error.
C3_FailedRedirectFallsBack ==
  LET t == TemplateOf[input] IN
  (pc = "prompt" /\ RunsBuiltin(t)) =>
    /\ (t.ro.some /\ ~Openable(fs, t.ro.val.file)) =>
         /\ out = SuccessString(result)
         /\ ~Contains(err, t.ro.val.file \o <<": ", IOERR>>)
    /\ (t.re.some /\ ~Openable(fs, t.re.val.file)) =>
         /\ ~result.ok => IsSuffix(result.val \o <<NL>>, err)
         /\ ~Contains(err, t.re.val.file \o <<": ", IOERR>>)

\* C4: a builtin with a stderr redirect never prints its error string on
\* standard error; when the target can be opened the file exists afterwards
\* and holds the error string (nothing on success), after the previous
\* content when appending; with no stderr redirect the error string is
\* printed on standard error.
C4_BuiltinStderrRedirect ==
  [][pc' = "prompt" =>
       LET t == TemplateOf[input']
           e == ErrorString(result')
       IN RunsBuiltin(t) =>
            /\ (t.re.some /\ e # <<>>) => ~Contains(err', e)
            /\ (t.re.some /\ Openable(fs, t.re.val.file)) =>
                 LET file == t.re.val.file
                     shared == t.ro.some /\ t.ro.val.file = file
                 IN /\ fs'[file].exists
                    /\ t.re.val.op \notin AppendOps => fs'[file].content = e
                    /\ t.re.val.op \in AppendOps =>
                         IF shared THEN IsSuffix(e, fs'[file].content)
                         ELSE fs'[file].content = Content(fs, file) \o e
            /\ (~t.re.some /\ e # <<>>) => IsSuffix(e \o <<NL>>, err')]_vars

\* `cd nodir 2> f` has run: the error is in the file, not on standard error
C4_Witness ==
  /\ pc = "prompt"
  /\ input = <<"cd", SPACE, "nodir", SPACE, "2", GT, SPACE, "f">>
  /\ fs[F] = File(<<"cd: ", "nodir", ": No such file or directory">>)
  /\ err = <<>>

(***************************************************************************)
(* More properties of the tokenizer                                        *)
(***************************************************************************)
\* the loop is about to read a backslash
AtBackslash == pc = "tokenize" /\ tk.pos <= Len(input) /\ input[tk.pos] = BACKSLASH

\* C11: outside single quotes a backslash is removed and the character
\* after it, whatever it is, is appended to the pending token with the
\* tokens and the quote state unchanged; a backslash that ends the line is
\* dropped; inside single quotes the backslash itself is appended.
C11_BackslashEscapes ==
  [][AtBackslash =>
       /\ tk'.tokens = tk.tokens
       /\ tk'.in_single_quote = tk.in_single_quote
       /\ tk'.in_double_quote = tk.in_double_quote
       /\ IF tk.in_single_quote
          THEN tk'.current = Append(tk.current, BACKSLASH) /\ tk'.pos = tk.pos + 1
          ELSE IF tk.pos < Len(input)
          THEN tk'.current = Append(tk.current, input[tk.pos + 1]) /\ tk'.pos = tk.pos + 2
          ELSE tk'.current = tk.current /\ tk'.pos = tk.pos + 1]_vars

\* `a\ 1\`: the escaped space stayed inside the token, the last backslash
\* is gone
C11_Witness ==
  /\ pc = "tokenized"
  /\ input = <<"a", BACKSLASH, SPACE, "1", BACKSLASH>>
  /\ tk.tokens = <<<<"a", SPACE, "1">>>>

\* the words of a line: its maximal runs of characters that are not
\* whitespace, in the order they start
WordStarts(line) ==
  {i \in 1..Len(line) : ~is_whitespace(line[i]) /\ (i = 1 \/ is_whitespace(line[i - 1]))}
WordEnd(line, i) ==
  CHOOSE j \in i..Len(line) :
    /\ \A k \in i..j : ~is_whitespace(line[k])
    /\ (j = Len(line) \/ is_whitespace(line[j + 1]))
SplitWhitespace(line) ==
  LET starts == WordStarts(line)
      Nth(k) == CHOOSE i \in starts : Cardinality({j \in starts : j < i}) = k - 1
  IN [k \in 1..Cardinality(starts) |-> SubSeq(line, Nth(k), WordEnd(line, Nth(k)))]

\* no quote character, no backslash and no `>`
IsPlain(line) ==
  ~Has(line, SQUOTE) /\ ~Has(line, DQUOTE) /\ ~Has(line, BACKSLASH) /\ ~Has(line, GT)

\* C15: for a line with no quote character, no backslash and no `>`,
\* tokenize returns the line split on runs of whitespace: no empty token,
\* leading and trailing whitespace ignored.
C15_WhitespaceSplit ==
  (pc = "tokenized" /\ IsPlain(input)) =>
    /\ tk.tokens = SplitWhitespace(input)
    /\ \A k \in 1..Len(tk.tokens) : tk.tokens[k] # <<>>

\* ` a  1`: leading blank and a run of two blanks between the words
C15_Witness ==
  /\ pc = "tokenized"
  /\ input = <<SPACE, "a", SPACE, SPACE, "1">>
  /\ tk.tokens = <<<<"a">>, <<"1">>>>

\* the line is plain text, then a quote q that is never closed: the text
\* after q holds no q and, for the double quote, no backslash
FirstQuote(line) ==
  CHOOSE k \in 1..Len(line) :
    /\ line[k] \in {SQUOTE, DQUOTE}
    /\ \A j \in 1..(k - 1) : line[j] \notin {SQUOTE, DQUOTE}
BeforeQuote(line) == SubSeq(line, 1, FirstQuote(line) - 1)
AfterQuote(line) == SubSeq(line, FirstQuote(line) + 1, Len(line))
EndsInOpenQuote(line) ==
  /\ Has(line, SQUOTE) \/ Has(line, DQUOTE)
  /\ IsPlain(BeforeQuote(line))
  /\ ~Has(AfterQuote(line), line[FirstQuote(line)])
  /\ line[FirstQuote(line)] = DQUOTE => ~Has(AfterQuote(line), BACKSLASH)

\* what such a line tokenizes to: the words before the quote, the last of
\* them continued by the quoted text when no whitespace separates them
OpenQuoteTokens(line) ==
  LET pre == BeforeQuote(line)
      words == SplitWhitespace(pre)
      glued == pre # <<>> /\ ~is_whitespace(Last(pre))
      pending == (IF glued THEN Last(words) ELSE <<>>) \o AfterQuote(line)
  IN (IF glued THEN Front(words) ELSE words)
       \o (IF pending # <<>> THEN <<pending>> ELSE <<>>)

\* C18: tokenize has a step to take at every point of every line, so it
\* always ends with a token sequence; a line that ends inside an open quote
\* ends in the open-quote state with the characters collected in the pending
\* token emitted as the last token.
C18_NeverFails ==
  [](/\ pc = "tokenize" => ENABLED TokNext
     /\ (pc = "tokenized" /\ EndsInOpenQuote(input)) =>
          /\ tk.in_single_quote \/ tk.in_double_quote
          /\ tk.tokens = OpenQuoteTokens(input))

\* `a "1 `: the open double quote kept `1` and the blank as the last token
C18_Witness ==
  /\ pc = "tokenized"
  /\ input = <<"a", SPACE, DQUOTE, "1", SPACE>>
  /\ tk.in_double_quote
  /\ tk.tokens = <<<<"a">>, <<"1", SPACE>>>>

\* the line holds one quote pair with nothing inside, standing alone:
\* plain text before it that is empty or ends in whitespace, plain text
\* after it that is empty or starts with whitespace
EmptyQuoteAt(line, k) ==
  /\ k < Len(line)
  /\ line[k] \in {SQUOTE, DQUOTE} /\ line[k + 1] = line[k]
  /\ IsPlain(SubSeq(line, 1, k - 1)) /\ IsPlain(SubSeq(line, k + 2, Len(line)))
  /\ k = 1 \/ is_whitespace(line[k - 1])
  /\ k + 1 = Len(line) \/ is_whitespace(line[k + 2])

\* C23: no token tokenize emits is empty, at any point of any line (a
\* word or an operator token, it holds at least one character); an empty
\* quoted string standing alone adds no token, the line tokenizes to the
\* words around it.
C23_NoEmptyToken ==
  /\ \A k \in 1..Len(tk.tokens) : tk.tokens[k] # <<>>
  /\ pc = "tokenized" =>
       \A k \in 1..Len(input) :
         EmptyQuoteAt(input, k) =>
           tk.tokens = SplitWhitespace(SubSeq(input, 1, k - 1))
                         \o SplitWhitespace(SubSeq(input, k + 2, Len(input)))

\* `a ''`: the empty quoted string added nothing
C23_Witness ==
  /\ pc = "tokenized"
  /\ input = <<"a", SPACE, SQUOTE, SQUOTE>>
  /\ tk.tokens = <<<<"a">>>>

(***************************************************************************)
(* Properties of the read loop                                             *)
(***************************************************************************)
\* the line read names the command `exit`
ReadsExit(line) == TemplateOf[line].cmd # <<>> /\ NameOf(TemplateOf[line]) = "exit"

\* a step of the loop ends it only on `exit` or on one of the reader
\* outcomes in `stopping`; every other line read, whatever came of it,
\* leaves the shell at the prompt (after the wait for a child, if any)
StopsOnlyOn(stopping) ==
  /\ (pc = "prompt" /\ pc' = "exited") =>
       \/ readline' = "Ok" /\ ReadsExit(input')
       \/ readline' \in stopping
  /\ (pc = "prompt" /\ readline' = "Ok" /\ ~ReadsExit(input')) => pc' \in {"prompt", "waiting"}
  /\ pc = "waiting" => pc' = "prompt"

\* C12 (as claimed): the read loop stops only when the command name is
\* `exit` or the line reader returns end-of-input or interrupt.
C12_StopsOnlyOnExitOrEof == [][StopsOnlyOn({"Eof", "Interrupted"})]_vars

\* C12 (amended): the read loop stops only when the command name is `exit`
\* or the line reader returns end-of-input, interrupt or another error;
\* after a builtin error, a command-not-found error or a failed redirection
\* write the shell is back at the prompt, where a line can be read.
C12_StopsOnlyOnExitOrReaderEnd ==
  /\ [][StopsOnlyOn({"Eof", "Interrupted", "Error"})]_vars
  /\ [](pc = "prompt" => ENABLED LineSkipped)

\* the shell is at the prompt after `nosuch`, which was not found
C12_Witness ==
  /\ pc = "prompt"
  /\ input = <<"nosuch">>
  /\ ~result.ok
  /\ err = <<"nosuch", ": command not found", NL>>

\* a step of the loop reads a line
ReadsLine == pc = "prompt" /\ readline' = "Ok"

\* C13: a line that leaves `arguments` empty (a blank line, or only
\* redirection operators with their targets) is skipped: no file is
\* created, truncated or written, nothing is printed, no process is
\* started, and the shell is at the prompt again.
C13_EmptyCommandSkipped ==
  [][(ReadsLine /\ TemplateOf[input'].cmd = <<>>) =>
       /\ fs' = fs
       /\ cwd' = cwd
       /\ out' = <<>> /\ err' = <<>>
       /\ spawned' = spawned
       /\ pc' = "prompt"]_vars

\* the line ` > f` was read while f held `a`: f still holds it
C13_Witness ==
  /\ pc = "prompt"
  /\ readline = "Ok"
  /\ input = <<SPACE, GT, SPACE, "f">>
  /\ fs[F] = File(<<"a", NL>>)

\* C14: a builtin with a stdout redirect prints nothing on standard output;
\* when the target can be opened it exists afterwards, also when the success
\* string is empty, and (no stderr redirect naming the same file) its
\* content ends with the success string and is exactly the success string
\* when the operator truncates.
C14_BuiltinStdoutRedirect ==
  [][(ReadsLine /\ RunsBuiltin(TemplateOf[input']) /\ TemplateOf[input'].ro.some) =>
       LET t == TemplateOf[input']
           file == t.ro.val.file
           s == SuccessString(result')
       IN /\ out' = <<>>
          /\ Openable(fs, file) =>
               /\ fs'[file].exists
               /\ ~(t.re.some /\ t.re.val.file = file) =>
                    /\ IsSuffix(s, fs'[file].content)
                    /\ t.ro.val.op \notin AppendOps => fs'[file].content = s]_vars

\* `cd dir > f` has run: nothing to write, yet f was created, empty
C14_Witness ==
  /\ pc = "prompt"
  /\ input = <<"cd", SPACE, "dir", SPACE, GT, SPACE, "f">>
  /\ result = Ok(<<>>)
  /\ fs[F] = File(<<>>)
  /\ out = <<>>

\* C16: the line `echo hi | tr a-z A-Z` runs as a pipeline, the output of
\* echo feeding tr: when the line has run, standard output holds `HI` and a
\* newline.
C16_PipelineOutput ==
  (pc = "prompt" /\ readline = "Ok" /\ input = PipeCmd) => out = <<"HI", NL>>

\* C17: every process spawned for a line has been waited on when execution
\* of the line ends: a spawned process exists only while the shell waits
\* for it, a line is read only when none is left, and the step that ends
\* the line's execution leaves none.
C17_ChildrenReaped ==
  [][/\ ReadsLine => spawned = 0
     /\ (pc = "waiting" /\ pc' # "waiting") => (spawned > 0 /\ spawned' = 0)
     /\ pc' # "waiting" => spawned' = 0]_vars

\* `ls` was spawned, its output collected, and no process is left
C17_Witness ==
  /\ pc = "prompt"
  /\ input = <<"ls">>
  /\ result = Ok(<<"x", NL>>)
  /\ out = <<"x", NL>>
  /\ spawned = 0

(***************************************************************************)
(* Properties of the builtins                                              *)
(***************************************************************************)
\* the builtin list of the claim
BuiltinList == {<<"echo">>, <<"exit">>, <<"type">>, <<"pwd">>, <<"cd">>}

\* entry k of the search path holds a regular file `name` with an execute bit
IsExecutableIn(k, name) ==
  LET full == env.path.val[k] \o <<"/">> \o name
  IN full \in DOMAIN env.files /\ env.files[full] = "exec"

\* C19: `type <name>` has run: a name of the builtin list is reported as a
\* shell builtin whatever PATH and the files are; any other name is reported
\* with `<dir>/<name>` for the first directory of PATH, in order, that holds
\* a regular file of that name with an execute bit, and as not found when
\* PATH is unset or no directory holds one.
C19_TypeLookup ==
  (pc = "done" /\ pr.args[1] = <<"type">> /\ Len(pr.args) >= 2) =>
    LET name == pr.args[2]
        n == IF env.path.some THEN Len(env.path.val) ELSE 0
    IN IF name \in BuiltinList
       THEN result = Ok(name \o <<" is a shell builtin", NL>>)
       ELSE \/ \E k \in 1..n :
                 /\ IsExecutableIn(k, name)
                 /\ \A j \in 1..(k - 1) : ~IsExecutableIn(j, name)
                 /\ result = Ok(name \o <<" is ">> \o env.path.val[k] \o <<"/">> \o name \o <<NL>>)
            \/ /\ \A k \in 1..n : ~IsExecutableIn(k, name)
               /\ result = Ok(name \o <<": not found", NL>>)

\* `type ls` with PATH=usr:bin, usr/ls not executable, bin/ls executable
C19_Witness ==
  /\ pc = "done"
  /\ pr.args = << <<"type">>, <<"ls">> >>
  /\ env.path = Some(<< <<"usr">>, <<"bin">> >>)
  /\ <<"usr", "/", "ls">> \in DOMAIN env.files /\ env.files[<<"usr", "/", "ls">>] = "plain"
  /\ <<"bin", "/", "ls">> \in DOMAIN env.files /\ env.files[<<"bin", "/", "ls">>] = "exec"
  /\ result = Ok(<<"ls", " is ", "bin", "/", "ls", NL>>)

\* the first k arguments after the command name, one space between
\* neighbours
RECURSIVE Spaced(_, _)
Spaced(command, k) ==
  IF k = 0 THEN <<>>
  ELSE IF k = 1 THEN command[2]
  ELSE Spaced(command, k - 1) \o <<SPACE>> \o command[k + 1]

\* C20: echo has run: the result is a success, its string is the arguments
\* after the command name joined by single spaces and followed by exactly
\* one newline, and a lone newline when there are no arguments.
C20_EchoJoins ==
  (pc = "done" /\ pr.args[1] = <<"echo">>) =>
    /\ result.ok
    /\ result.val = Spaced(pr.args, Len(pr.args) - 1) \o <<NL>>
    /\ Count(result.val, NL) = 1
    /\ Count(result.val, SPACE) = (IF Len(pr.args) > 2 THEN Len(pr.args) - 2 ELSE 0)
    /\ Len(pr.args) = 1 => result.val = <<NL>>

\* `echo a 1`
C20_Witness ==
  /\ pc = "done"
  /\ pr.args = << <<"echo">>, <<"a">>, <<"1">> >>
  /\ result = Ok(<<"a", SPACE, "1", NL>>)

(***************************************************************************)
(* Properties of tokenize followed by parse_command                        *)
(***************************************************************************)
\* tokenize, run on line from state st, takes the `>` branch at some
\* character: it reads a `>` in Normal state
RECURSIVE RecognisesOperator(_, _)
RecognisesOperator(st, line) ==
  /\ st.pos <= Len(line)
  /\ \/ Branch(line[st.pos], st) = "redirect"
     \/ RecognisesOperator(TokStep(st, line), line)

\* C21: when every `>` of the line is quoted or backslash-escaped (the
\* tokenizer recognises no operator in Normal state), parse_command returns
\* no redirect descriptor and every token reaches the command as an
\* argument.
C21_QuotedOperatorIsArgument ==
  (pc = "parsed" /\ ~RecognisesOperator(TokInit, input)) =>
    /\ pr.redirect_stdout = None
    /\ pr.redirect_stderr = None
    /\ pr.args = tokens

\* C22: a builtin run with a stdout redirect to a file that can be opened
\* and with any stderr redirect, one to the same file included, leaves the
\* file with its success string as the content added: the content ends
\* with the string.
C22_StdoutSurvivesStderrRedirect ==
  [][(/\ ReadsLine
      /\ RunsBuiltin(TemplateOf[input'])
      /\ TemplateOf[input'].ro.some
      /\ TemplateOf[input'].re.some
      /\ Openable(fs, TemplateOf[input'].ro.val.file)) =>
       LET file == TemplateOf[input'].ro.val.file
       IN /\ fs'[file].exists
          /\ IsSuffix(SuccessString(result'), fs'[file].content)]_vars

\* C24: on every line, tokenize of tokenize.rs returns what tokenize of
\* main.rs returned, and parse_command of redirection.rs returns, on those
\* tokens, what parse_command of main.rs returned.
C24_CopiesAgree ==
  /\ pc \in {"skipped", "tokens", "parsed"} => tokenize_rs(input) = tokens
  /\ pc = "parsed" => parse_command_rs(tokens) = ParsedCommand(pr)

\* `a 2>> f`: three tokens, one of them an operator, one descriptor
C24_Witness ==
  /\ pc = "parsed"
  /\ input = <<"a", SPACE, "2", GT, GT, SPACE, "f">>
  /\ tokenize_rs(input) = <<<<"a">>, <<"2", GT, GT>>, <<"f">>>>
  /\ pr.args = <<<<"a">>>>
  /\ parse_command_rs(tokens).redirect_stderr = Some(Redirection(<<"f">>, TRUE))

====
